---- MODULE Spec2Model ----
(***************************************************************************)
(* Model of the catalogue processor: XMLProcessor (src/xml_processor.py),  *)
(* ManifestHandler (src/manifest_handler.py) and process_catalogue         *)
(* (src/main.py).                                                          *)
(*                                                                         *)
(* Strings are sequences of chunks.  The chunk alphabet is chosen so that  *)
(* no chunk occurs inside another chunk or across a chunk boundary, hence  *)
(* equality, `in` (substring), slicing and path splitting on chunk         *)
(* sequences agree with the same operations on the Python strings.         *)
(* Python's None is the one-chunk sequence <<"None">>, which is no string  *)
(* of the alphabet.                                                        *)
(***************************************************************************)
EXTENDS Integers, Sequences, FiniteSets, TLC

VARIABLES
    xml_file,   \* the file handed to _process_single_xml
    extracted,  \* its locals audio_filename, isrc, track_title, artist
    record,     \* what _process_single_xml returned for xml_file
    xpc         \* "parse" before the call, "done" after it

xvars == <<xml_file, extracted, record, xpc>>

VARIABLES
    manifest_file,  \* the content of the file at manifest_path
    manifest_data,  \* ManifestHandler.manifest_data
    file_index,     \* ManifestHandler.file_index
    mpc,            \* "new", then "loaded", or "failed" when load_manifest raised
    applied,        \* what update_manifest_with_metadata was given since the
                    \* load: "none" (not called), "empty" (empty lists only), "some"
    ret             \* the last call on the handler and what it returned

mvars == <<manifest_file, manifest_data, file_index, mpc, applied, ret>>

VARIABLES
    xml_dir,          \* the files os.walk(xml_dir) yields, in walk order
    limit,            \* the limit argument: [set |-> FALSE] for None
    max_workers,      \* the max_workers argument
    pc,               \* where process_catalogue stands
    xml_files,        \* what find_xml_files returned
    queue,            \* the executor's work queue: positions in xml_files
    running,          \* per worker thread, the position it processes (0: idle)
    futures,          \* per position, the result of its call once it is done
    self_results,     \* XMLProcessor.results
    xml_results,      \* what process_xml_files returned
    next_result,      \* the position of the matching loop in xml_results
    matched_metadata, \* process_catalogue's matched_metadata
    unmatched_count,  \* process_catalogue's unmatched_count
    output            \* what save_updated_manifest wrote

pvars == <<xml_dir, limit, max_workers, pc, xml_files, queue,
           running, futures, self_results, xml_results, next_result,
           matched_metadata, unmatched_count, output>>

vars == <<xvars, mvars, pvars>>

None == <<"None">>

\* bool(s) of an Optional[str]: None and "" are falsy
Truthy(s) == s # None /\ s # <<>>

(***************************************************************************)
(* Generic string helpers                                                  *)
(***************************************************************************)
\* str.lower(), chunk by chunk
LowerChunk(c) ==
    CASE c = "File" -> "file"
      [] c = "Name" -> "name"
      [] c = "Audio" -> "audio"
      [] c = "Sound" -> "sound"
      [] c = "Recording" -> "recording"
      [] c = "ISRC" -> "isrc"
      [] c = "Title" -> "title"
      [] c = "Track" -> "track"
      [] c = "Artist" -> "artist"
      [] c = "Performer" -> "performer"
      [] c = "Item" -> "item"
      [] c = "WAV" -> "wav"
      [] c = "XML" -> "xml"
      [] OTHER -> c

Lower(s) == [i \in 1..Len(s) |-> LowerChunk(s[i])]

\* Python's `sub in s` on strings
Contains(s, sub) ==
    \E i \in 0..(Len(s) - Len(sub)) :
        \A j \in 1..Len(sub) : s[i + j] = sub[j]

\* str.startswith
StartsWith(s, pre) ==
    /\ Len(pre) <= Len(s)
    /\ \A j \in 1..Len(pre) : s[j] = pre[j]

\* str.endswith
EndsWith(s, suf) ==
    /\ Len(suf) <= Len(s)
    /\ \A j \in 1..Len(suf) : s[Len(s) - Len(suf) + j] = suf[j]

\* Python slice s[a:-1] (a is 0-based)
SliceToLast(s, a) == SubSeq(s, a + 1, Len(s) - 1)

DotWav == <<".", "wav">>

(***************************************************************************)
(* XML documents.  A document is the sequence of its elements in document  *)
(* order (pre-order); element 1 is the root and every other element names  *)
(* its parent, an earlier element.                                         *)
(*   tag    [ns |-> BOOLEAN, name |-> string]: ns means the element is in  *)
(*          a namespace, so that elem.tag is "{uri}name"                   *)
(*   text   elem.text, None for an element without text                    *)
(*   attrib elem.attrib as the ordered sequence of <<name, value>> pairs   *)
(***************************************************************************)
Elem(ns, name, text, attrib) ==
    [tag |-> [ns |-> ns, name |-> name], text |-> text, attrib |-> attrib]

\* elem.tag as a string: "{uri}name" for a namespaced element
TagString(e) == IF e.tag.ns THEN <<"{urn}">> \o e.tag.name ELSE e.tag.name

\* elem.get(name): the attribute's value, None when the element has none
RECURSIVE AttrLookup(_, _, _)
AttrLookup(attrib, name, k) ==
    IF k > Len(attrib) THEN None
    ELSE IF attrib[k][1] = name THEN attrib[k][2]
    ELSE AttrLookup(attrib, name, k + 1)

ElemGet(e, name) == AttrLookup(e.attrib, name, 1)

HasAttr(e, name) == \E k \in 1..Len(e.attrib) : e.attrib[k][1] = name

\* the indices of S in increasing order
RECURSIVE SortedSeq(_)
SortedSeq(S) ==
    IF S = {} THEN <<>>
    ELSE LET m == CHOOSE x \in S : \A y \in S : x <= y
         IN <<m>> \o SortedSeq(S \ {m})

RECURSIVE Flatten(_)
Flatten(ss) == IF ss = <<>> THEN <<>> ELSE Head(ss) \o Flatten(Tail(ss))

(***************************************************************************)
(* ElementTree path patterns, as the strings the source passes to findall. *)
(* The first five chunks of every attribute pattern are single characters, *)
(* so pattern[5:-1] slices the model's sequence as it slices the string.   *)
(***************************************************************************)
DescPrefix == <<".", "/", "/">>
AttrPrefix == <<".", "/", "/", "*", "[", "@">>

TagPattern(name) == DescPrefix \o name
TagPattern2(outer, inner) == DescPrefix \o outer \o <<"/">> \o inner
AttrPattern(name) == AttrPrefix \o name \o <<"]">>
NsPattern(name) == DescPrefix \o <<"{*}">> \o name
NsPattern2(outer, inner) ==
    DescPrefix \o <<"{*}">> \o outer \o <<"/">> \o <<"{*}">> \o inner

\* the steps of a path after ".//", split at "/"
RECURSIVE SplitSteps(_, _)
SplitSteps(s, cur) ==
    IF s = <<>> THEN <<cur>>
    ELSE IF Head(s) = "/" THEN <<cur>> \o SplitSteps(Tail(s), <<>>)
    ELSE SplitSteps(Tail(s), Append(cur, Head(s)))

\* a step "name" matches the un-namespaced tag only; "{*}name" matches the
\* name in any namespace or in none
StepMatches(e, step) ==
    IF step # <<>> /\ Head(step) = "{*}"
    THEN e.tag.name = Tail(step)
    ELSE ~e.tag.ns /\ e.tag.name = step

Children(doc, i) == SortedSeq({j \in 1..Len(doc) : doc[j].parent = i})

\* the children of the elements of `from`, in that order, that match `step`
ChildStep(doc, from, step) ==
    Flatten([k \in 1..Len(from) |->
        SelectSeq(Children(doc, from[k]), LAMBDA j : StepMatches(doc[j], step))])

RECURSIVE WalkSteps(_, _, _, _)
WalkSteps(doc, from, steps, k) ==
    IF k > Len(steps) THEN from
    ELSE WalkSteps(doc, ChildStep(doc, from, steps[k]), steps, k + 1)

\* root.findall(pattern): the matching elements (their indices), in the order
\* ElementTree yields them.  ".//" selects among the descendants of the root,
\* never the root itself.
FindAll(doc, pattern) ==
    LET desc == SortedSeq(2..Len(doc))
    IN IF StartsWith(pattern, AttrPrefix)
       THEN LET name == SubSeq(pattern, Len(AttrPrefix) + 1, Len(pattern) - 1)
            IN SelectSeq(desc, LAMBDA j : HasAttr(doc[j], name))
       ELSE LET steps == SplitSteps(SubSeq(pattern, Len(DescPrefix) + 1, Len(pattern)), <<>>)
                first == SelectSeq(desc, LAMBDA j : StepMatches(doc[j], steps[1]))
            IN WalkSteps(doc, first, steps, 2)

(***************************************************************************)
(* XMLProcessor: the four field extractors                                 *)
(***************************************************************************)
FileName == <<"File", "Name">>
AudioFileName == <<"Audio", "File", "Name">>
SoundRecording == <<"Sound", "Recording">>

\* the pattern list of _extract_audio_filename, in the source's order
FilenamePatterns ==
    << TagPattern(FileName), TagPattern(AudioFileName),
       TagPattern2(SoundRecording, FileName),
       AttrPattern(<<"file", "name">>), AttrPattern(<<"audio", "File", "Name">>),
       NsPattern(FileName), NsPattern(AudioFileName),
       NsPattern2(SoundRecording, FileName) >>

IsrcPatterns ==
    << TagPattern(<<"ISRC">>), AttrPattern(<<"isrc">>), NsPattern(<<"ISRC">>) >>

TitlePatterns ==
    << TagPattern(<<"Title">>), TagPattern(<<"Track", "Title">>),
       TagPattern2(SoundRecording, <<"Title">>),
       AttrPattern(<<"title">>), AttrPattern(<<"track", "Title">>),
       NsPattern(<<"Title">>), NsPattern(<<"Track", "Title">>) >>

ArtistPatterns ==
    << TagPattern(<<"Artist">>), TagPattern(<<"Artist", "Name">>),
       TagPattern2(<<"Performer">>, <<"Name">>),
       AttrPattern(<<"artist">>), AttrPattern(<<"artist", "Name">>),
       NsPattern(<<"Artist">>), NsPattern(<<"Artist", "Name">>),
       NsPattern2(<<"Performer">>, <<"Name">>) >>

IsAttrPattern(pattern) == StartsWith(pattern, AttrPrefix)

\* attr_name = pattern[5:-1]
SlicedAttrName(pattern) == SliceToLast(pattern, 5)

\* the name handed to elements[0].get(): pattern[5:-1] in the filename, title
\* and artist extractors, the literal 'isrc' in _extract_isrc
AttrNameOf(pattern, sliced) ==
    IF sliced THEN SlicedAttrName(pattern) ELSE <<"isrc">>

\* The structural loop shared by the four extractors: the first pattern, in
\* order, with a match decides; [hit |-> FALSE] when no pattern matches.
RECURSIVE StructuralPhase(_, _, _, _)
StructuralPhase(doc, patterns, sliced, k) ==
    IF k > Len(patterns) THEN [hit |-> FALSE, val |-> None]
    ELSE LET elements == FindAll(doc, patterns[k])
         IN IF elements # <<>>
            THEN IF IsAttrPattern(patterns[k])
                 THEN [hit |-> TRUE,
                       val |-> ElemGet(doc[elements[1]], AttrNameOf(patterns[k], sliced))]
                 ELSE [hit |-> TRUE, val |-> doc[elements[1]].text]
            ELSE StructuralPhase(doc, patterns, sliced, k + 1)

AnyKeyIn(keys, s) == \E kw \in keys : Contains(Lower(s), kw)

\* the first of the accepted attribute positions; 0 when none is accepted
FirstAttr(accepted) ==
    IF accepted = {} THEN 0
    ELSE CHOOSE k \in accepted : \A j \in accepted : k <= j

FilenameTagKeys == {<<"file", "name">>, <<"audio", "file", "name">>, <<"sound", "recording">>}
FilenameAttrKeys == {<<"file", "name">>, <<"file">>, <<"audio">>}

\* the scan of _extract_audio_filename over root.iter(), from element i on
RECURSIVE FilenameFallback(_, _)
FilenameFallback(doc, i) ==
    IF i > Len(doc) THEN None
    ELSE LET e == doc[i]
             a == FirstAttr({k \in 1..Len(e.attrib) :
                      /\ AnyKeyIn(FilenameAttrKeys, e.attrib[k][1])
                      /\ Truthy(e.attrib[k][2])
                      /\ Contains(Lower(e.attrib[k][2]), DotWav)})
         IN IF /\ AnyKeyIn(FilenameTagKeys, TagString(e))
               /\ Truthy(e.text)
               /\ Contains(Lower(e.text), DotWav)
            THEN e.text
            ELSE IF a # 0 THEN e.attrib[a][2]
            ELSE FilenameFallback(doc, i + 1)

\* the scan of _extract_isrc, _extract_track_title and _extract_artist: the
\* first element whose tag holds a keyword returns its text (None included),
\* else its first attribute whose name holds a keyword returns its value
RECURSIVE KeywordFallback(_, _, _)
KeywordFallback(doc, keys, i) ==
    IF i > Len(doc) THEN None
    ELSE LET e == doc[i]
             a == FirstAttr({k \in 1..Len(e.attrib) : AnyKeyIn(keys, e.attrib[k][1])})
         IN IF AnyKeyIn(keys, TagString(e)) THEN e.text
            ELSE IF a # 0 THEN e.attrib[a][2]
            ELSE KeywordFallback(doc, keys, i + 1)

\* faulty variant: the keyword scan runs before the structural patterns
ExtractAudioFilenameScanFirst(doc) ==
    LET f == FilenameFallback(doc, 1)
        s == StructuralPhase(doc, FilenamePatterns, TRUE, 1)
    IN IF f # None THEN f ELSE s.val

_extract_audio_filename(doc) ==
    LET s == StructuralPhase(doc, FilenamePatterns, TRUE, 1)
    IN IF s.hit THEN s.val ELSE FilenameFallback(doc, 1)

_extract_isrc(doc) ==
    LET s == StructuralPhase(doc, IsrcPatterns, FALSE, 1)
    IN IF s.hit THEN s.val ELSE KeywordFallback(doc, {<<"isrc">>}, 1)

_extract_track_title(doc) ==
    LET s == StructuralPhase(doc, TitlePatterns, TRUE, 1)
    IN IF s.hit THEN s.val
       ELSE KeywordFallback(doc, {<<"title">>, <<"track", "title">>}, 1)

_extract_artist(doc) ==
    LET s == StructuralPhase(doc, ArtistPatterns, TRUE, 1)
    IN IF s.hit THEN s.val
       ELSE KeywordFallback(doc, {<<"artist">>, <<"performer">>, <<"creator">>}, 1)

\* the None a failed _process_single_xml returns
NoRecord == [failed |-> TRUE]

\* _process_single_xml without the test of audio_filename
ProcessSingleXmlKeepNameless(file) ==
    IF ~file.wellformed THEN NoRecord
    ELSE [xml_path |-> file.path,
          audio_filename |-> _extract_audio_filename(file.doc),
          isrc |-> _extract_isrc(file.doc),
          track_title |-> _extract_track_title(file.doc),
          artist |-> _extract_artist(file.doc)]

\* _process_single_xml: a file that does not parse raises inside the try and
\* yields None; so does a document without a truthy audio filename
_process_single_xml(file) ==
    IF ~file.wellformed THEN NoRecord
    ELSE LET audio_filename == _extract_audio_filename(file.doc)
             isrc == _extract_isrc(file.doc)
             track_title == _extract_track_title(file.doc)
             artist == _extract_artist(file.doc)
         IN IF ~Truthy(audio_filename) THEN NoRecord
            ELSE [xml_path |-> file.path,
                  audio_filename |-> audio_filename,
                  isrc |-> isrc,
                  track_title |-> track_title,
                  artist |-> artist]

(***************************************************************************)
(* Input documents of the extraction specification                         *)
(***************************************************************************)
MaxElems == 3

Item == <<"Item">>
OrigFileName == <<"Orig", "File", "Name">>

T1 == <<"t1", ".", "wav">>
T2 == <<"t2", ".", "WAV">>
T3 == <<"t3", ".", "wav">>
T4 == <<"t4", ".", "wav">>
T5 == <<"t5", ".", "wav">>
T6 == <<"t6", ".", "wav">>
T7 == <<"t7", ".", "wav">>

\* elements below the root
Elems ==
    { Elem(FALSE, FileName, T1, <<>>),
      Elem(FALSE, FileName, None, <<>>),
      Elem(FALSE, AudioFileName, T2, <<>>),
      Elem(TRUE, FileName, T3, <<>>),
      Elem(TRUE, AudioFileName, <<"x">>, <<>>),
      Elem(FALSE, SoundRecording, None, <<>>),
      Elem(FALSE, OrigFileName, T4, <<>>),
      Elem(FALSE, <<"ISRC">>, <<"US1">>, <<>>),
      Elem(TRUE, <<"ISRC">>, <<"US2">>, <<>>),
      Elem(FALSE, <<"Title">>, <<"Song">>, <<>>),
      Elem(FALSE, <<"Artist">>, <<"Band">>, <<>>),
      Elem(FALSE, Item, None, <<>>),
      Elem(FALSE, Item, None, << <<<<"file", "name">>, T5>> >>),
      Elem(FALSE, Item, None, << <<<<"audio", "File", "Name">>, T6>> >>),
      Elem(FALSE, Item, None, << <<<<"audio", "File", "Name">>, <<"x">>>> >>),
      Elem(FALSE, Item, None, << <<<<"src", "file">>, T7>> >>),
      Elem(FALSE, Item, None, << <<<<"isrc">>, <<"US3">>>> >>),
      Elem(FALSE, Item, None, << <<<<"title">>, <<"Tune">>>>, <<<<"isrc">>, <<"US4">>>> >>),
      Elem(FALSE, Item, None, << <<<<"track", "Title">>, <<"Tune2">>>> >>),
      Elem(FALSE, Item, None, << <<<<"artist">>, <<"Duo">>>> >>),
      Elem(FALSE, Item, None, << <<<<"artist", "Name">>, <<"Trio">>>> >>) }

\* root elements
Roots ==
    { Elem(FALSE, Item, None, <<>>),
      Elem(FALSE, FileName, T1, <<>>),
      Elem(FALSE, Item, None, << <<<<"audio", "File", "Name">>, T6>> >>) }

WithParent(e, p) ==
    [tag |-> e.tag, text |-> e.text, attrib |-> e.attrib, parent |-> p]

\* the parents of elements 2..n: element k+1 hangs below one of 1..k
ParentChoices(n) == {ps \in [1..(n - 1) -> 1..(n - 1)] : \A k \in 1..(n - 1) : ps[k] <= k}

\* the document with root r, the elements es below it and their parents ps
MkDoc(r, es, ps) ==
    [i \in 1..(Len(es) + 1) |-> IF i = 1 THEN WithParent(r, 0)
                                ELSE WithParent(es[i - 1], ps[i - 1])]

WellFormed(path, doc) == [path |-> path, wellformed |-> TRUE, doc |-> doc]

\* a file ET.parse raises on
Malformed(path) == [path |-> path, wellformed |-> FALSE, doc |-> <<>>]

NoFields ==
    [audio_filename |-> None, isrc |-> None, track_title |-> None, artist |-> None]

(***************************************************************************)
(* Extraction specification: one call of _process_single_xml on a file     *)
(***************************************************************************)
\* process_catalogue is not running
IdlePipeline ==
    /\ xml_dir = <<>>
    /\ limit = [set |-> FALSE]
    /\ max_workers = 1
    /\ pc = "idle"
    /\ xml_files = <<>>
    /\ queue = <<>>
    /\ running = <<0>>
    /\ futures = <<>>
    /\ self_results = <<>>
    /\ xml_results = <<>>
    /\ next_result = 1
    /\ matched_metadata = <<>>
    /\ unmatched_count = 0
    /\ output = [raised |-> "no", file |-> [shape |-> "none"]]

\* the handler before any manifest is given to it
IdleManifest ==
    /\ manifest_file = [shape |-> "none"]
    /\ manifest_data = [shape |-> "none"]
    /\ file_index = [f \in {} |-> 0]
    /\ mpc = "idle"
    /\ applied = "none"
    /\ ret = [op |-> "none"]

InitExtract ==
    /\ IdleManifest
    /\ IdlePipeline
    /\ \/ \E n \in 1..MaxElems :
            \E r \in Roots, es \in [1..(n - 1) -> Elems], ps \in ParentChoices(n) :
                xml_file = WellFormed(<<"f1">>, MkDoc(r, es, ps))
       \/ xml_file = Malformed(<<"f1">>)
    /\ extracted = NoFields
    /\ record = NoRecord
    /\ xpc = "parse"

\* _process_single_xml(xml_path)
ProcessSingleXml ==
    /\ xpc = "parse"
    /\ extracted' =
          IF xml_file.wellformed
          THEN [audio_filename |-> _extract_audio_filename(xml_file.doc),
                isrc |-> _extract_isrc(xml_file.doc),
                track_title |-> _extract_track_title(xml_file.doc),
                artist |-> _extract_artist(xml_file.doc)]
          ELSE NoFields
    /\ record' = _process_single_xml(xml_file)
    /\ xpc' = "done"
    /\ UNCHANGED <<xml_file, mvars, pvars>>

NextExtract == ProcessSingleXml

SpecExtract == InitExtract /\ [][NextExtract]_vars

(***************************************************************************)
(* ManifestHandler.  Field names are atomic strings; field values are       *)
(* strings (chunk sequences), None (JSON null, NaN in a DataFrame) or a     *)
(* number.                                                                  *)
(*   table   [shape |-> "table", columns |-> <<name...>>, rows |-> <<row>>] *)
(*           a row is the sequence of its values, one per column; the row   *)
(*           label of the RangeIndex is the row's position                  *)
(*   list    [shape |-> "list", items |-> <<dict...>>]                      *)
(*   mapping [shape |-> "mapping", entries |-> << <<key, item>>... >>]      *)
(* A dict is the sequence of its <<key, value>> pairs in insertion order.   *)
(* Positions are 1-based where Python's are 0-based.                        *)
(***************************************************************************)
Number == <<"#7">>

IsStr(v) == v # None /\ v # Number

\* a mapping value that is not a dict
ScalarItem == << <<"#scalar", None>> >>

IsDict(item) == item # ScalarItem

NoKey == "#None"

NotLoaded == [shape |-> "none"]

DictHas(dct, key) == \E k \in 1..Len(dct) : dct[k][1] = key

\* dict.get(key, default)
DictGet(dct, key, default) ==
    IF DictHas(dct, key)
    THEN dct[CHOOSE k \in 1..Len(dct) : dct[k][1] = key][2]
    ELSE default

\* dct[key] = value: in place for a present key, appended for a new one
DictSet(dct, key, value) ==
    IF DictHas(dct, key)
    THEN [k \in 1..Len(dct) |-> IF dct[k][1] = key THEN <<key, value>> ELSE dct[k]]
    ELSE Append(dct, <<key, value>>)

DictKeys(dct) == {dct[k][1] : k \in 1..Len(dct)}

ColumnPos(columns, name) == CHOOSE k \in 1..Len(columns) : columns[k] = name

HasColumn(columns, name) == \E k \in 1..Len(columns) : columns[k] = name

\* row.to_dict()
RowDict(columns, row) == [k \in 1..Len(columns) |-> <<columns[k], row[k]>>]

\* pathlib.Path(s).name on POSIX: the last component, "" when there is none;
\* empty components and "." components are dropped by the parser
PathParts(s) ==
    SelectSeq(SplitSteps(s, <<>>), LAMBDA c : c # <<>> /\ c # <<".">>)

PathName(s) ==
    IF PathParts(s) = <<>> THEN <<>> ELSE PathParts(s)[Len(PathParts(s))]

HasSlash(v) == Contains(v, <<"/">>) \/ Contains(v, <<"\\">>)

PriorityNames == <<"path", "filepath", "file_path", "location", "uri", "url">>

\* the first name of the priority list that `present` holds; NoKey when none
RECURSIVE FirstPriorityName(_, _)
FirstPriorityName(present, k) ==
    IF k > Len(PriorityNames) THEN NoKey
    ELSE IF PriorityNames[k] \in present THEN PriorityNames[k]
    ELSE FirstPriorityName(present, k + 1)

\* manifest_data[col].dtype == 'object': the column holds a string
IsObjectColumn(data, c) == \E r \in 1..Len(data.rows) : IsStr(data.rows[r][c])

\* manifest_data[col].dropna().iloc[0], "" for a column of NaN only
ColumnSample(data, c) ==
    LET kept == SelectSeq(data.rows, LAMBDA row : row[c] # None)
    IN IF kept = <<>> THEN <<>> ELSE kept[1][c]

\* the second loop of _find_path_column, from column c on
RECURSIVE FirstSlashColumn(_, _)
FirstSlashColumn(data, c) ==
    IF c > Len(data.columns) THEN NoKey
    ELSE IF /\ IsObjectColumn(data, c)
            /\ IsStr(ColumnSample(data, c))
            /\ HasSlash(ColumnSample(data, c))
         THEN data.columns[c]
    ELSE FirstSlashColumn(data, c + 1)

\* faulty variant: the content heuristic is consulted before the names
FindPathColumnContentFirst(data) ==
    IF data.shape # "table" THEN NoKey
    ELSE IF FirstSlashColumn(data, 1) # NoKey THEN FirstSlashColumn(data, 1)
    ELSE FirstPriorityName({data.columns[k] : k \in 1..Len(data.columns)}, 1)

_find_path_column(data) ==
    IF data.shape # "table" THEN NoKey
    ELSE LET byName == FirstPriorityName({data.columns[k] : k \in 1..Len(data.columns)}, 1)
         IN IF byName # NoKey THEN byName ELSE FirstSlashColumn(data, 1)

\* the second loop of _find_path_key_in_dict, from item k on
RECURSIVE FirstSlashKey(_, _)
FirstSlashKey(dct, k) ==
    IF k > Len(dct) THEN NoKey
    ELSE IF IsStr(dct[k][2]) /\ HasSlash(dct[k][2]) THEN dct[k][1]
    ELSE FirstSlashKey(dct, k + 1)

_find_path_key_in_dict(sample_dict) ==
    IF sample_dict = <<>> THEN NoKey
    ELSE LET byName == FirstPriorityName(DictKeys(sample_dict), 1)
         IN IF byName # NoKey THEN byName ELSE FirstSlashKey(sample_dict, 1)

\* file_index[filename] = locator
IndexPut(index, filename, locator) ==
    [f \in (DOMAIN index) \cup {filename} |->
        IF f = filename THEN locator ELSE index[f]]

EmptyIndex == [f \in {} |-> 0]

\* The indexing loops of _build_file_index over the <<locator, filepath>>
\* pairs of the records, from pair k on.  Path(filepath) raises TypeError on
\* a value that is no string; the entries written so far stay in file_index.
RECURSIVE IndexLoop(_, _, _)
IndexLoop(index, pairs, k) ==
    IF k > Len(pairs) THEN [file_index |-> index, raised |-> "no"]
    ELSE IF ~IsStr(pairs[k][2]) THEN [file_index |-> index, raised |-> "TypeError"]
    ELSE IndexLoop(IndexPut(index, PathName(pairs[k][2]), pairs[k][1]), pairs, k + 1)

\* the path field _build_file_index and find_audio_file look for
PathField(data) ==
    CASE data.shape = "table" -> _find_path_column(data)
      [] data.shape = "list" ->
            _find_path_key_in_dict(IF data.items # <<>> THEN data.items[1] ELSE <<>>)
      [] data.shape = "mapping" ->
            IF data.entries # <<>> /\ IsDict(data.entries[1][2])
            THEN _find_path_key_in_dict(data.entries[1][2])
            ELSE NoKey
      [] OTHER -> NoKey

\* the <<locator, filepath>> pairs of the records, in iteration order
PathPairs(data, field) ==
    CASE data.shape = "table" ->
            [r \in 1..Len(data.rows) |-> <<r, data.rows[r][ColumnPos(data.columns, field)]>>]
      [] data.shape = "list" ->
            [i \in 1..Len(data.items) |-> <<i, DictGet(data.items[i], field, <<>>)>>]
      [] data.shape = "mapping" ->
            [i \in 1..Len(data.entries) |->
                <<data.entries[i][1], DictGet(data.entries[i][2], field, <<>>)>>]

\* _build_file_index: the new file_index and the exception raised, if any.
\* next(iter(manifest_data)) raises StopIteration on an empty mapping.
_build_file_index(data, index) ==
    IF data.shape = "mapping" /\ data.entries = <<>>
    THEN [file_index |-> index, raised |-> "StopIteration"]
    ELSE IF PathField(data) = NoKey THEN [file_index |-> index, raised |-> "no"]
    ELSE IndexLoop(index, PathPairs(data, PathField(data)), 1)

\* the characters of the alphabet that are one chunk each
SingleChars == {"/", "\\", ".", "x", "b", "c", "d"}

\* Series.str.contains(pat) is re.search: "." in the pattern matches any one
\* character, every other chunk of the alphabet matches itself
RegexContains(s, pat) ==
    \E i \in 0..(Len(s) - Len(pat)) :
        \A j \in 1..Len(pat) :
            \/ s[i + j] = pat[j]
            \/ pat[j] = "." /\ s[i + j] \in SingleChars

\* what find_audio_file returns; None is [found |-> FALSE]
Entry(dct) == [found |-> TRUE, entry |-> dct, raised |-> "no"]
NoEntry == [found |-> FALSE, entry |-> <<>>, raised |-> "no"]
RaisedEntry(exc) == [found |-> FALSE, entry |-> <<>>, raised |-> exc]

\* the record at an index locator
RecordAt(data, locator) ==
    CASE data.shape = "table" -> RowDict(data.columns, data.rows[locator])
      [] data.shape = "list" -> data.items[locator]
      [] data.shape = "mapping" ->
            data.entries[CHOOSE i \in 1..Len(data.entries) :
                            data.entries[i][1] = locator][2]

\* the flexible search of find_audio_file over the records, in order
RECURSIVE ListScan(_, _, _, _)
ListScan(items, field, filename, k) ==
    IF k > Len(items) THEN NoEntry
    ELSE IF ~IsStr(DictGet(items[k], field, <<>>)) THEN RaisedEntry("TypeError")
    ELSE IF Contains(DictGet(items[k], field, <<>>), filename) THEN Entry(items[k])
    ELSE ListScan(items, field, filename, k + 1)

RECURSIVE MappingScan(_, _, _, _)
MappingScan(entries, field, filename, k) ==
    IF k > Len(entries) THEN NoEntry
    ELSE IF ~IsStr(DictGet(entries[k][2], field, <<>>)) THEN RaisedEntry("TypeError")
    ELSE IF Contains(DictGet(entries[k][2], field, <<>>), filename)
         THEN Entry(DictSet(entries[k][2], "id", <<entries[k][1]>>))
    ELSE MappingScan(entries, field, filename, k + 1)

TableScan(data, field, filename) ==
    LET c == ColumnPos(data.columns, field)
        matches == SelectSeq(data.rows,
                       LAMBDA row : IsStr(row[c]) /\ RegexContains(row[c], filename))
    IN IF matches # <<>> THEN Entry(RowDict(data.columns, matches[1])) ELSE NoEntry

FlexibleSearch(data, filename) ==
    CASE data.shape = "table" ->
            IF _find_path_column(data) # NoKey
            THEN TableScan(data, _find_path_column(data), filename)
            ELSE NoEntry
      [] data.shape = "list" ->
            IF PathField(data) # NoKey
            THEN ListScan(data.items, PathField(data), filename, 1)
            ELSE NoEntry
      [] data.shape = "mapping" ->
            IF data.entries = <<>> THEN RaisedEntry("StopIteration")
            ELSE IF IsDict(data.entries[1][2]) /\ PathField(data) # NoKey
            THEN MappingScan(data.entries, PathField(data), filename, 1)
            ELSE NoEntry
      [] OTHER -> NoEntry

\* faulty variant: the flexible search is skipped
FindAudioFileIndexOnly(data, index, audio_filename) ==
    IF PathName(audio_filename) \in DOMAIN index /\ data.shape # "none"
    THEN Entry(RecordAt(data, index[PathName(audio_filename)]))
    ELSE NoEntry

find_audio_file(data, index, audio_filename) ==
    LET filename == PathName(audio_filename)
    IN IF filename \in DOMAIN index /\ data.shape # "none"
       THEN Entry(RecordAt(data, index[filename]))
       ELSE FlexibleSearch(data, filename)

\* `if manifest_entry:` in process_catalogue: None and {} are falsy
EntryTruthy(e) == e.found /\ e.entry # <<>>

MetadataFields == <<"isrc", "track_title", "artist">>

\* the three assignments of one metadata record to the record at `locator`
\* faulty variant: only the isrc is written
WriteIsrcOnly(dct, metadata) == DictSet(dct, "isrc", metadata.isrc)

WriteFields(dct, metadata) ==
    DictSet(DictSet(DictSet(dct, "isrc", metadata.isrc),
                    "track_title", metadata.track_title),
            "artist", metadata.artist)

\* updated_manifest[col] = None for each of the three columns not yet present
RECURSIVE AddColumns(_, _)
AddColumns(data, k) ==
    IF k > Len(MetadataFields) THEN data
    ELSE IF HasColumn(data.columns, MetadataFields[k]) THEN AddColumns(data, k + 1)
    ELSE AddColumns([shape |-> "table",
                     columns |-> Append(data.columns, MetadataFields[k]),
                     rows |-> [r \in 1..Len(data.rows) |-> Append(data.rows[r], None)]],
                    k + 1)

\* updated_manifest.loc[idx, col] = value, for the three columns
WriteRow(data, r, metadata) ==
    [shape |-> "table", columns |-> data.columns,
     rows |-> [q \in 1..Len(data.rows) |->
                IF q # r THEN data.rows[q]
                ELSE [c \in 1..Len(data.columns) |->
                        CASE data.columns[c] = "isrc" -> metadata.isrc
                          [] data.columns[c] = "track_title" -> metadata.track_title
                          [] data.columns[c] = "artist" -> metadata.artist
                          [] OTHER -> data.rows[q][c]]]]

\* one iteration of the update loops: the record the exact index names gets
\* the three fields; a filename the index does not hold is skipped
ApplyOne(data, index, metadata) ==
    LET filename == PathName(metadata.audio_filename)
    IN IF filename \notin DOMAIN index THEN data
       ELSE CASE data.shape = "table" -> WriteRow(data, index[filename], metadata)
              [] data.shape = "list" ->
                    [shape |-> "list",
                     items |-> [i \in 1..Len(data.items) |->
                                 IF i = index[filename]
                                 THEN WriteFields(data.items[i], metadata)
                                 ELSE data.items[i]]]
              [] data.shape = "mapping" ->
                    [shape |-> "mapping",
                     entries |-> [i \in 1..Len(data.entries) |->
                                   IF data.entries[i][1] = index[filename]
                                   THEN <<data.entries[i][1],
                                          WriteFields(data.entries[i][2], metadata)>>
                                   ELSE data.entries[i]]]
              [] OTHER -> data

RECURSIVE ApplyAll(_, _, _, _)
ApplyAll(data, index, metadata_list, k) ==
    IF k > Len(metadata_list) THEN data
    ELSE ApplyAll(ApplyOne(data, index, metadata_list[k]), index, metadata_list, k + 1)

\* faulty variant: a record that already holds the fields is given them a second time
\* by appending, as a list-valued field would be
UpdateAppending(data, index, metadata_list) ==
    IF data.shape # "list" THEN ApplyAll(data, index, metadata_list, 1)
    ELSE [shape |-> "list",
          items |-> [i \in 1..Len(data.items) |->
             IF \E k \in 1..Len(metadata_list) :
                   /\ PathName(metadata_list[k].audio_filename) \in DOMAIN index
                   /\ index[PathName(metadata_list[k].audio_filename)] = i
             THEN DictSet(data.items[i], "isrc",
                      DictGet(data.items[i], "isrc", <<>>) \o <<"+">>)
             ELSE data.items[i]]]

\* update_manifest_with_metadata: the new manifest_data
update_manifest_with_metadata(data, index, metadata_list) ==
    IF data.shape = "table"
    THEN ApplyAll(AddColumns(data, 1), index, metadata_list, 1)
    ELSE ApplyAll(data, index, metadata_list, 1)

\* the keys of the dicts, each once, in the order pandas meets them
RECURSIVE KeysInOrder(_, _, _)
KeysInOrder(dicts, k, acc) ==
    IF k > Len(dicts) THEN acc
    ELSE LET fresh == SelectSeq([j \in 1..Len(dicts[k]) |-> dicts[k][j][1]],
                                LAMBDA key : ~HasColumn(acc, key))
         IN KeysInOrder(dicts, k + 1, acc \o fresh)

\* pd.DataFrame(list of dicts): one row per dict, NaN for a missing key
FrameOfList(items) ==
    LET cols == KeysInOrder(items, 1, <<>>)
    IN [shape |-> "table", columns |-> cols,
        rows |-> [i \in 1..Len(items) |->
                    [c \in 1..Len(cols) |-> DictGet(items[i], cols[c], None)]]]

\* pd.DataFrame(dict of dicts): one column per outer key, one row per inner key
FrameOfMapping(entries) ==
    LET inner == KeysInOrder([i \in 1..Len(entries) |-> entries[i][2]], 1, <<>>)
    IN [shape |-> "table",
        columns |-> [i \in 1..Len(entries) |-> entries[i][1]],
        rows |-> [r \in 1..Len(inner) |->
                    [c \in 1..Len(entries) |-> DictGet(entries[c][2], inner[r], None)]]]

Saved(file) == [raised |-> "no", file |-> file]
SaveRaised(exc) == [raised |-> exc, file |-> NotLoaded]

OutputFormats == {"csv", "json"}

\* faulty variant: to_csv without index=False writes the row labels as a first column
SaveWithRowLabels(data, format) ==
    IF format = "csv" /\ data.shape = "table"
    THEN Saved([shape |-> "table",
                columns |-> <<"Unnamed: 0">> \o data.columns,
                rows |-> [r \in 1..Len(data.rows) |-> <<Number>> \o data.rows[r]]])
    ELSE IF format = "csv" THEN Saved(FrameOfList(<<>>))
    ELSE IF data.shape = "table" THEN SaveRaised("TypeError")
    ELSE Saved(data)

\* save_updated_manifest: what is written for the suffix of output_path
\* (.xls/.xlsx go the way of .csv), or the exception raised
save_updated_manifest(data, format) ==
    IF format = "csv"
    THEN CASE data.shape = "table" -> Saved(data)
           [] data.shape = "list" -> Saved(FrameOfList(data.items))
           [] data.shape = "mapping" ->
                 IF \E i \in 1..Len(data.entries) : ~IsDict(data.entries[i][2])
                 THEN SaveRaised("ValueError")
                 ELSE Saved(FrameOfMapping(data.entries))
           [] OTHER -> Saved(FrameOfList(<<>>))
    ELSE IF data.shape = "table" THEN SaveRaised("TypeError")
    ELSE Saved(data)

(***************************************************************************)
(* Manifest files of the handler specification                             *)
(***************************************************************************)
MaxRows == 2

P_b_t1 == <<"/", "b", "/", "t1", ".", "wav">>
P_c_t1 == <<"/", "c", "/", "t1", ".", "wav">>
P_b_xt2 == <<"/", "b", "/", "x", "t2", ".", "wav">>
P_t3 == <<"t3", ".", "wav">>

PathValues == {P_b_t1, P_c_t1, P_b_xt2, P_t3}

\* the field lists of the candidate manifests, in column order, each field
\* with the values its cells are drawn from
Schemas ==
    { << <<"path", PathValues>> >>,
      << <<"url", {P_c_t1}>>, <<"path", {P_b_t1, P_b_xt2}>> >>,
      << <<"name", {<<"n">>}>>, <<"file", {P_b_t1, P_t3}>>, <<"uri", {P_b_xt2}>> >>,
      << <<"size", {Number}>>, <<"file", {P_b_t1, P_b_xt2, None}>> >>,
      << <<"name", {<<"n">>, None}>>, <<"size", {Number}>> >>,
      << <<"path", {P_b_t1, P_c_t1}>>, <<"isrc", {<<"US0">>}>>,
         <<"track_title", {None}>>, <<"artist", {None}>> >> }

SchemaColumns(schema) == [c \in 1..Len(schema) |-> schema[c][1]]

\* the rows a schema admits: one value per column
SchemaRows(schema) ==
    {row \in [1..Len(schema) -> UNION {schema[c][2] : c \in 1..Len(schema)}] :
        \A c \in 1..Len(schema) : row[c] \in schema[c][2]}

MappingKeys == <<"k1", "k2", "k3", "k4">>

\* the file's content as load_manifest reads it, for each of the three shapes
TableOf(columns, rows) == [shape |-> "table", columns |-> columns, rows |-> rows]

ListOf(columns, rows) ==
    [shape |-> "list",
     items |-> [r \in 1..Len(rows) |-> RowDict(columns, rows[r])]]

MappingOf(columns, rows) ==
    [shape |-> "mapping",
     entries |-> [r \in 1..Len(rows) |-> <<MappingKeys[r], RowDict(columns, rows[r])>>]]

ScalarMapping == [shape |-> "mapping", entries |-> << <<"k1", ScalarItem>> >>]

\* JSON manifests whose records do not all hold the same keys
RaggedManifests ==
    { [shape |-> "list",
       items |-> << << <<"path", P_b_t1>> >>, << <<"name", <<"n">>>> >> >>],
      [shape |-> "list",
       items |-> << << <<"name", <<"n">>>> >>, << <<"path", P_b_t1>> >> >>],
      [shape |-> "mapping",
       entries |-> << <<"k1", << <<"path", P_c_t1>> >> >>,
                      <<"k2", << <<"name", <<"n">>>> >> >> >>] }

\* manifests with the path /b/t2xwav, which holds no file name t2.wav
P_b_t2xwav == <<"/", "b", "/", "t2", "x", "wav">>

LookalikeManifests ==
    { TableOf(<<"path">>, << <<P_b_t2xwav>> >>),
      ListOf(<<"path">>, << <<P_b_t2xwav>> >>) }

\* the metadata records handed to the handler
Meta(audio_filename, isrc, track_title, artist) ==
    [xml_path |-> <<"f1">>, audio_filename |-> audio_filename,
     isrc |-> isrc, track_title |-> track_title, artist |-> artist]

Metadata ==
    { Meta(<<"t1", ".", "wav">>, <<"US1">>, <<"Song">>, None),
      Meta(<<"d", "/", "t1", ".", "wav">>, <<"US2">>, None, <<"Band">>),
      Meta(<<"t2", ".", "wav">>, <<"US3">>, <<"Tune">>, <<"Duo">>),
      Meta(<<"t9", ".", "wav">>, <<"US4">>, None, None) }

MetadataLists ==
    {<<>>} \cup {<<m>> : m \in Metadata} \cup {<<m, n>> : m \in Metadata, n \in Metadata}

\* no XML file is being processed
IdleExtract ==
    /\ xml_file = Malformed(<<"f1">>)
    /\ extracted = NoFields
    /\ record = NoRecord
    /\ xpc = "idle"

(***************************************************************************)
(* Handler specification: a ManifestHandler is given a manifest file; once *)
(* load_manifest was called, its other methods are called in any order.    *)
(***************************************************************************)
InitManifest ==
    /\ IdleExtract
    /\ IdlePipeline
    /\ \/ \E schema \in Schemas, n \in 0..MaxRows :
            \E rows \in [1..n -> SchemaRows(schema)] :
                \/ manifest_file = TableOf(SchemaColumns(schema), rows)
                \/ manifest_file = ListOf(SchemaColumns(schema), rows)
                \/ manifest_file = MappingOf(SchemaColumns(schema), rows)
       \/ manifest_file = ScalarMapping
       \/ manifest_file \in RaggedManifests
       \/ manifest_file \in LookalikeManifests
    /\ manifest_data = NotLoaded
    /\ file_index = EmptyIndex
    /\ mpc = "new"
    /\ applied = "none"
    /\ ret = [op |-> "none"]

\* load_manifest(): reads the file, then _build_file_index(); an exception of
\* the latter is logged and raised again
LoadManifest ==
    /\ mpc = "new"
    /\ LET built == _build_file_index(manifest_file, file_index)
       IN /\ manifest_data' = manifest_file
          /\ file_index' = built.file_index
          /\ mpc' = IF built.raised = "no" THEN "loaded" ELSE "failed"
          /\ ret' = [op |-> "load", raised |-> built.raised]
    /\ UNCHANGED <<manifest_file, applied, xvars, pvars>>

\* find_audio_file(audio_filename)
FindAudioFile(audio_filename) ==
    /\ mpc \in {"loaded", "failed"}
    /\ ret' = [op |-> "find", arg |-> audio_filename,
               result |-> find_audio_file(manifest_data, file_index, audio_filename)]
    /\ UNCHANGED <<manifest_file, manifest_data, file_index, mpc, applied, xvars, pvars>>

\* update_manifest_with_metadata(metadata_list)
UpdateManifest(metadata_list) ==
    /\ mpc \in {"loaded", "failed"}
    /\ manifest_data' = update_manifest_with_metadata(manifest_data, file_index, metadata_list)
    /\ applied' = IF metadata_list # <<>> THEN "some"
                  ELSE IF applied = "none" THEN "empty" ELSE applied
    /\ ret' = [op |-> "update"]
    /\ UNCHANGED <<manifest_file, file_index, mpc, xvars, pvars>>

\* save_updated_manifest(output_path)
SaveManifest(format) ==
    /\ mpc \in {"loaded", "failed"}
    /\ ret' = [op |-> "save", arg |-> format,
               result |-> save_updated_manifest(manifest_data, format)]
    /\ UNCHANGED <<manifest_file, manifest_data, file_index, mpc, applied, xvars, pvars>>

NextManifest ==
    \/ LoadManifest
    \/ \E m \in Metadata : FindAudioFile(m.audio_filename)
    \/ \E metadata_list \in MetadataLists : UpdateManifest(metadata_list)
    \/ \E format \in OutputFormats : SaveManifest(format)

SpecManifest == InitManifest /\ [][NextManifest]_vars

(***************************************************************************)
(* Catalogue specification: one run of process_catalogue.  The executor's  *)
(* worker threads take the selected files from the work queue one by one   *)
(* and run _process_single_xml on them while the coordinating thread waits *)
(* for every future in turn.                                               *)
(***************************************************************************)
\* os.path.join(root, file) for a file of the directory
JoinPath(name) == <<"d", "/">> \o name

\* find_xml_files: the files whose lower-cased name ends with .xml, in walk
\* order, cut to the first `limit` of them when limit is truthy and smaller
find_xml_files(dir, lim) ==
    LET IsXml(entry) == EndsWith(Lower(entry.name), <<".", "xml">>)
        found == SelectSeq(dir, IsXml)
        joined == [i \in 1..Len(found) |-> JoinPath(found[i].name)]
    IN IF lim.set /\ lim.n # 0 /\ Len(joined) > lim.n
       THEN SubSeq(joined, 1, lim.n)
       ELSE joined

\* the file ET.parse(xml_path) opens
FileAt(dir, xml_path) ==
    LET entry == dir[CHOOSE i \in 1..Len(dir) : JoinPath(dir[i].name) = xml_path]
    IN [path |-> xml_path, wellformed |-> entry.wellformed, doc |-> entry.doc]

Pending == [done |-> FALSE]
Done(result) == [done |-> TRUE, result |-> result]

\* valid_results = [r for r in results if r is not None]
FilterValid(results) ==
    LET IsRecord(r) == r # NoRecord
    IN SelectSeq(results, IsRecord)

(***************************************************************************)
(* Inputs of the catalogue specification                                   *)
(***************************************************************************)
MaxFiles == 2
MaxWorkers == 2

FileStems == <<"f1", "f2", "f3", "f4">>

T2Lower == <<"t2", ".", "wav">>

\* documents: file name t1.wav with an ISRC, t2.wav with an ISRC, no file name
DocT1 ==
    MkDoc(Elem(FALSE, Item, None, <<>>),
          <<Elem(FALSE, FileName, T1, <<>>), Elem(FALSE, <<"ISRC">>, <<"US1">>, <<>>)>>,
          <<1, 1>>)
DocT2 ==
    MkDoc(Elem(FALSE, Item, None, <<>>),
          <<Elem(FALSE, FileName, T2Lower, <<>>), Elem(TRUE, <<"ISRC">>, <<"US2">>, <<>>)>>,
          <<1, 1>>)
DocNoName == MkDoc(Elem(FALSE, Item, None, <<>>), <<Elem(FALSE, <<"ISRC">>, <<"US1">>, <<>>)>>, <<1>>)

DirFile(stem, suffix, wellformed, doc) ==
    [name |-> <<stem, ".", suffix>>, wellformed |-> wellformed, doc |-> doc]

\* what the i-th file of the walk can be
DirFiles(i) ==
    { DirFile(FileStems[i], "xml", TRUE, DocT1),
      DirFile(FileStems[i], "xml", TRUE, DocT2),
      DirFile(FileStems[i], "xml", TRUE, DocNoName),
      DirFile(FileStems[i], "xml", FALSE, <<>>),
      DirFile(FileStems[i], "XML", TRUE, DocT1),
      DirFile(FileStems[i], "txt", TRUE, DocT1) }

Limits == {[set |-> FALSE]} \cup {[set |-> TRUE, n |-> n] : n \in 0..MaxFiles}

\* manifests: t1.wav indexed and t2.wav only contained in a longer name, as a
\* list and as a table; a list without any path; an empty mapping
CatalogueManifests ==
    { ListOf(<<"path">>, << <<P_b_t1>>, <<P_b_xt2>> >>),
      TableOf(<<"path">>, << <<P_b_t1>>, <<P_b_xt2>> >>),
      ListOf(<<"name">>, << <<<<"n">>>> >>),
      MappingOf(<<"path">>, <<>>) }

NotSaved == [raised |-> "no", file |-> [shape |-> "none"]]

Init ==
    /\ IdleExtract
    /\ \E n \in 0..MaxFiles : \E dir \in [1..n -> UNION {DirFiles(i) : i \in 1..n}] :
          /\ \A i \in 1..n : dir[i] \in DirFiles(i)
          /\ xml_dir = dir
    /\ limit \in Limits
    /\ max_workers \in 1..MaxWorkers
    /\ manifest_file \in CatalogueManifests
    /\ manifest_data = NotLoaded
    /\ file_index = EmptyIndex
    /\ mpc = "new"
    /\ applied = "none"
    /\ ret = [op |-> "none"]
    /\ pc = "load_manifest"
    /\ xml_files = <<>>
    /\ queue = <<>>
    /\ running = [w \in 1..max_workers |-> 0]
    /\ futures = <<>>
    /\ self_results = <<>>
    /\ xml_results = <<>>
    /\ next_result = 1
    /\ matched_metadata = <<>>
    /\ unmatched_count = 0
    /\ output = NotSaved

\* process_catalogue step 1: ManifestHandler(manifest_path).load_manifest();
\* an exception leaves process_catalogue
LoadCatalogueManifest ==
    /\ pc = "load_manifest"
    /\ LET built == _build_file_index(manifest_file, file_index)
       IN /\ manifest_data' = manifest_file
          /\ file_index' = built.file_index
          /\ mpc' = IF built.raised = "no" THEN "loaded" ELSE "failed"
          /\ pc' = IF built.raised = "no" THEN "process_xml_files" ELSE "raised"
    /\ UNCHANGED <<manifest_file, applied, ret, xvars, xml_dir, limit, max_workers,
                   xml_files, queue, running, futures, self_results, xml_results,
                   next_result, matched_metadata, unmatched_count, output>>

\* process_xml_files up to executor.map: find_xml_files(limit); without files
\* it returns [] and process_catalogue returns None; otherwise one call per
\* file is submitted, in order
SubmitXmlFiles ==
    /\ pc = "process_xml_files"
    /\ LET selected == find_xml_files(xml_dir, limit)
       IN /\ xml_files' = selected
          /\ IF selected = <<>>
             THEN /\ pc' = "returned_none"
                  /\ UNCHANGED <<queue, futures>>
             ELSE /\ pc' = "executor"
                  /\ queue' = [i \in 1..Len(selected) |-> i]
                  /\ futures' = [i \in 1..Len(selected) |-> Pending]
    /\ UNCHANGED <<xvars, mvars, xml_dir, limit, max_workers, running, self_results,
                   xml_results, next_result, matched_metadata, unmatched_count, output>>

\* a worker thread without work takes the next call from the queue
WorkerTake(w) ==
    /\ pc = "executor"
    /\ running[w] = 0
    /\ queue # <<>>
    /\ running' = [running EXCEPT ![w] = Head(queue)]
    /\ queue' = Tail(queue)
    /\ UNCHANGED <<xvars, mvars, xml_dir, limit, max_workers, pc, xml_files, futures,
                   self_results, xml_results, next_result, matched_metadata,
                   unmatched_count, output>>

\* faulty variant: the worker's result goes to the first future without a
\* result, so that results stand in the order of completion
WorkerDoneCompletionOrder(w) ==
    /\ pc = "executor"
    /\ running[w] # 0
    /\ LET slot == CHOOSE i \in 1..Len(futures) :
                      ~futures[i].done /\ \A j \in 1..(i - 1) : futures[j].done
       IN futures' = [futures EXCEPT ![slot] =
                        Done(_process_single_xml(FileAt(xml_dir, xml_files[running[w]])))]
    /\ running' = [running EXCEPT ![w] = 0]
    /\ UNCHANGED <<xvars, mvars, xml_dir, limit, max_workers, pc, xml_files, queue,
                   self_results, xml_results, next_result, matched_metadata,
                   unmatched_count, output>>

\* the worker runs _process_single_xml on its file and sets the future
WorkerDone(w) ==
    /\ pc = "executor"
    /\ running[w] # 0
    /\ futures' = [futures EXCEPT ![running[w]] =
                      Done(_process_single_xml(FileAt(xml_dir, xml_files[running[w]])))]
    /\ running' = [running EXCEPT ![w] = 0]
    /\ UNCHANGED <<xvars, mvars, xml_dir, limit, max_workers, pc, xml_files, queue,
                   self_results, xml_results, next_result, matched_metadata,
                   unmatched_count, output>>

\* faulty variant: the coordinating thread goes on as soon as the first future
\* has its result, with the results that are there
CollectWithoutWaiting ==
    /\ pc = "executor"
    /\ futures[1].done
    /\ LET ready == SelectSeq(futures, LAMBDA f : f.done)
           results == [i \in 1..Len(ready) |-> ready[i].result]
           valid_results == FilterValid(results)
       IN /\ self_results' = valid_results
          /\ xml_results' = valid_results
          /\ pc' = IF valid_results = <<>> THEN "returned_none" ELSE "matching"
    /\ UNCHANGED <<xvars, mvars, xml_dir, limit, max_workers, xml_files, queue, running,
                   futures, next_result, matched_metadata, unmatched_count, output>>

\* every future has its result: list(executor.map(...)) is complete, the
\* executor shuts down, None results are filtered out, self.results is set;
\* process_catalogue returns None when nothing is left
CollectResults ==
    /\ pc = "executor"
    /\ \A i \in 1..Len(futures) : futures[i].done
    /\ \A w \in 1..max_workers : running[w] = 0
    /\ LET results == [i \in 1..Len(futures) |-> futures[i].result]
           valid_results == FilterValid(results)
       IN /\ self_results' = valid_results
          /\ xml_results' = valid_results
          /\ pc' = IF valid_results = <<>> THEN "returned_none" ELSE "matching"
    /\ UNCHANGED <<xvars, mvars, xml_dir, limit, max_workers, xml_files, queue, running,
                   futures, next_result, matched_metadata, unmatched_count, output>>

\* one round of the loop over xml_results
MatchResult ==
    /\ pc = "matching"
    /\ next_result <= Len(xml_results)
    /\ LET result == xml_results[next_result]
           audio_filename == result.audio_filename
           manifest_entry == find_audio_file(manifest_data, file_index, audio_filename)
       IN IF ~Truthy(audio_filename)
          THEN UNCHANGED <<pc, matched_metadata, unmatched_count>>
          ELSE IF manifest_entry.raised # "no"
          THEN /\ pc' = "raised"
               /\ UNCHANGED <<matched_metadata, unmatched_count>>
          ELSE IF EntryTruthy(manifest_entry)
          THEN /\ matched_metadata' = Append(matched_metadata,
                      [audio_filename |-> audio_filename,
                       isrc |-> result.isrc,
                       track_title |-> result.track_title,
                       artist |-> result.artist,
                       xml_path |-> result.xml_path])
               /\ UNCHANGED <<pc, unmatched_count>>
          ELSE /\ unmatched_count' = unmatched_count + 1
               /\ UNCHANGED <<pc, matched_metadata>>
    /\ next_result' = next_result + 1
    /\ UNCHANGED <<xvars, mvars, xml_dir, limit, max_workers, xml_files, queue, running,
                   futures, self_results, xml_results, output>>

\* process_catalogue step 4, after the loop
UpdateCatalogueManifest ==
    /\ pc = "matching"
    /\ next_result > Len(xml_results)
    /\ manifest_data' =
          update_manifest_with_metadata(manifest_data, file_index, matched_metadata)
    /\ pc' = "save"
    /\ UNCHANGED <<manifest_file, file_index, mpc, applied, ret, xvars, xml_dir, limit,
                   max_workers, xml_files, queue, running, futures, self_results,
                   xml_results, next_result, matched_metadata, unmatched_count, output>>

\* process_catalogue step 5: save_updated_manifest(output_path)
SaveCatalogueManifest(format) ==
    /\ pc = "save"
    /\ output' = save_updated_manifest(manifest_data, format)
    /\ pc' = IF output'.raised = "no" THEN "done" ELSE "raised"
    /\ UNCHANGED <<xvars, mvars, xml_dir, limit, max_workers, xml_files, queue, running,
                   futures, self_results, xml_results, next_result, matched_metadata,
                   unmatched_count>>

Next ==
    \/ LoadCatalogueManifest
    \/ SubmitXmlFiles
    \/ \E w \in 1..max_workers : WorkerTake(w)
    \/ \E w \in 1..max_workers : WorkerDone(w)
    \/ CollectResults
    \/ MatchResult
    \/ UpdateCatalogueManifest
    \/ \E format \in OutputFormats : SaveCatalogueManifest(format)

Spec == Init /\ [][Next]_vars

(***************************************************************************)
(* Claims about the field extractors (checked under SpecExtract)           *)
(***************************************************************************)
Extracted == xpc = "done" /\ xml_file.wellformed

\* the first pattern of the list, in order, that findall matches; 0 when none
FirstMatching(doc, patterns) ==
    IF \E k \in 1..Len(patterns) : FindAll(doc, patterns[k]) # <<>>
    THEN CHOOSE k \in 1..Len(patterns) :
            /\ FindAll(doc, patterns[k]) # <<>>
            /\ \A j \in 1..(k - 1) : FindAll(doc, patterns[j]) = <<>>
    ELSE 0

\* the attribute an attribute pattern names, between "[@" and "]"
NamedAttr(pattern) == SubSeq(pattern, Len(AttrPrefix) + 1, Len(pattern) - 1)

\* what the winning pattern designates: the named attribute's value on the
\* first matching element, or that element's text for a tag pattern
Designated(doc, patterns) ==
    LET p == patterns[FirstMatching(doc, patterns)]
        e == doc[FindAll(doc, p)[1]]
    IN IF IsAttrPattern(p) THEN ElemGet(e, NamedAttr(p)) ELSE e.text

StructuralValueOk(doc, patterns, got) ==
    FirstMatching(doc, patterns) # 0 => got = Designated(doc, patterns)

\* C1: in the structural phase of each of the four extractors, a winning
\* attribute pattern returns the value of that attribute on the first matching
\* element, and a winning tag pattern returns that element's text.
C1_AttributeValueOrTagText ==
    Extracted =>
        /\ StructuralValueOk(xml_file.doc, FilenamePatterns, extracted.audio_filename)
        /\ StructuralValueOk(xml_file.doc, IsrcPatterns, extracted.isrc)
        /\ StructuralValueOk(xml_file.doc, TitlePatterns, extracted.track_title)
        /\ StructuralValueOk(xml_file.doc, ArtistPatterns, extracted.artist)

\* the filename tag patterns of the claim: plain, then in any namespace
PlainFilenameTagPatterns ==
    << TagPattern(FileName), TagPattern(AudioFileName),
       TagPattern2(SoundRecording, FileName) >>

NsFilenameTagPatterns ==
    << NsPattern(FileName), NsPattern(AudioFileName),
       NsPattern2(SoundRecording, FileName) >>

FirstMatchText(doc, patterns) ==
    doc[FindAll(doc, patterns[FirstMatching(doc, patterns)])[1]].text

HasFilenameAttr(doc) ==
    \E i \in 2..Len(doc) :
        HasAttr(doc[i], <<"file", "name">>) \/ HasAttr(doc[i], <<"audio", "File", "Name">>)

\* C2 as stated: whenever some filename tag pattern (plain or namespaced)
\* matches, _extract_audio_filename returns the text of the first match of the
\* first such pattern, whatever attributes occur elsewhere in the document.
C2_TagTextWhateverElse ==
    (Extracted /\ FirstMatching(xml_file.doc,
                      PlainFilenameTagPatterns \o NsFilenameTagPatterns) # 0)
    => extracted.audio_filename =
          FirstMatchText(xml_file.doc, PlainFilenameTagPatterns \o NsFilenameTagPatterns)

\* C2 amended: a matching plain tag pattern always decides, with the text of the
\* first match of the first matching plain pattern; a namespaced tag pattern
\* decides, in the same way, when no plain tag pattern matches and no element
\* below the root carries a filename or audioFileName attribute.  The fallback
\* scan never overrides either.
C2_TagTextUnlessAttributePrecedes ==
    Extracted =>
        /\ FirstMatching(xml_file.doc, PlainFilenameTagPatterns) # 0
           => extracted.audio_filename =
                 FirstMatchText(xml_file.doc, PlainFilenameTagPatterns)
        /\ ( /\ FirstMatching(xml_file.doc, PlainFilenameTagPatterns) = 0
             /\ ~HasFilenameAttr(xml_file.doc)
             /\ FirstMatching(xml_file.doc, NsFilenameTagPatterns) # 0 )
           => extracted.audio_filename =
                 FirstMatchText(xml_file.doc, NsFilenameTagPatterns)

\* C2 witness: a namespaced FileName tag decided although an element the
\* fallback scan would accept (OrigFileName holding t4.wav) comes first.
C2_Witness ==
    /\ Extracted
    /\ Len(xml_file.doc) = 3
    /\ xml_file.doc[2].tag.name = OrigFileName
    /\ xml_file.doc[3].tag = [ns |-> TRUE, name |-> FileName]
    /\ extracted.audio_filename = T3
    /\ record # NoRecord

\* the audioFileName attributes below the root whose value contains ".wav"
WavAudioFileNameAttrs(doc) ==
    { ElemGet(doc[i], <<"audio", "File", "Name">>) : i \in
        { j \in 2..Len(doc) :
            /\ HasAttr(doc[j], <<"audio", "File", "Name">>)
            /\ Contains(Lower(ElemGet(doc[j], <<"audio", "File", "Name">>)), DotWav) } }

\* C3: when no filename tag pattern matches and no element carries a filename
\* attribute, but an element below the root carries an audioFileName attribute
\* whose value contains ".wav", _extract_audio_filename returns that value and
\* _process_single_xml yields a record holding it.
C3_AudioFileNameAttributeFound ==
    ( /\ Extracted
      /\ FirstMatching(xml_file.doc,
             PlainFilenameTagPatterns \o NsFilenameTagPatterns) = 0
      /\ \A i \in 2..Len(xml_file.doc) : ~HasAttr(xml_file.doc[i], <<"file", "name">>)
      /\ WavAudioFileNameAttrs(xml_file.doc) # {} )
    => /\ extracted.audio_filename \in WavAudioFileNameAttrs(xml_file.doc)
       /\ record # NoRecord
       /\ record.audio_filename = extracted.audio_filename

(***************************************************************************)
(* Claims about the ManifestHandler (checked under SpecManifest)           *)
(***************************************************************************)
\* the field names a structure exposes, over all its records
FieldSet(data) ==
    CASE data.shape = "table" -> {data.columns[c] : c \in 1..Len(data.columns)}
      [] data.shape = "list" -> UNION {DictKeys(data.items[i]) : i \in 1..Len(data.items)}
      [] data.shape = "mapping" ->
            UNION {DictKeys(data.entries[i][2]) : i \in 1..Len(data.entries)}
      [] OTHER -> {}

RecordCount(data) ==
    CASE data.shape = "table" -> Len(data.rows)
      [] data.shape = "list" -> Len(data.items)
      [] data.shape = "mapping" -> Len(data.entries)
      [] OTHER -> 0

\* the output format that reads back as the shape that was loaded
SameFormat(format, data) == (format = "csv") <=> (data.shape = "table")

\* a save that closes load_manifest; update_manifest_with_metadata([]); save
RoundTripSaved ==
    /\ mpc = "loaded"
    /\ applied = "empty"
    /\ ret.op = "save"
    /\ SameFormat(ret.arg, manifest_file)

\* C5 as stated: loading a manifest of any shape, applying no metadata record
\* and saving it yields exactly the original field names and record count.
C5_RoundTripExact ==
    RoundTripSaved =>
        /\ ret.result.raised = "no"
        /\ FieldSet(ret.result.file) = FieldSet(manifest_file)
        /\ RecordCount(ret.result.file) = RecordCount(manifest_file)

\* C5 amended: the record count is always reproduced and no field is lost; the
\* field set is reproduced exactly for the list and mapping shapes, while a
\* table comes back with the columns isrc, track_title and artist added.
C5_RoundTripUpToMetadataColumns ==
    RoundTripSaved =>
        /\ ret.result.raised = "no"
        /\ RecordCount(ret.result.file) = RecordCount(manifest_file)
        /\ FieldSet(ret.result.file) =
              FieldSet(manifest_file) \cup
                 (IF manifest_file.shape = "table"
                  THEN {"isrc", "track_title", "artist"} ELSE {})

\* C5 witness: a two-row table without an isrc column was saved after an empty
\* update, and the saved table has the column.
C5_Witness ==
    /\ RoundTripSaved
    /\ manifest_file.shape = "table"
    /\ RecordCount(manifest_file) = 2
    /\ "isrc" \notin FieldSet(manifest_file)
    /\ "isrc" \in FieldSet(ret.result.file)

ListedNames == {"path", "filepath", "file_path", "location", "uri", "url"}

\* all field values of a structure
AllValues(data) ==
    CASE data.shape = "table" ->
            {data.rows[r][c] : r \in 1..Len(data.rows), c \in 1..Len(data.columns)}
      [] data.shape = "list" ->
            UNION {{data.items[i][k][2] : k \in 1..Len(data.items[i])} :
                      i \in 1..Len(data.items)}
      [] data.shape = "mapping" ->
            UNION {{data.entries[i][2][k][2] : k \in 1..Len(data.entries[i][2])} :
                      i \in 1..Len(data.entries)}
      [] OTHER -> {}

\* neither heuristic can match: no field has a listed name, no value is a
\* string holding a slash or a backslash
NoPathLikeField(data) ==
    /\ FieldSet(data) \cap ListedNames = {}
    /\ \A v \in AllValues(data) : ~(IsStr(v) /\ HasSlash(v))

\* C6: for a manifest of any shape, an empty list or mapping included, in which
\* no field matches either heuristic, load_manifest completes without raising,
\* file_index stays empty, and find_audio_file returns None without raising.
C6_NoPathFieldDegradesGracefully ==
    (NoPathLikeField(manifest_file) /\ mpc # "new") =>
        /\ mpc = "loaded"
        /\ file_index = EmptyIndex
        /\ ret.op = "find" => ret.result = NoEntry

\* the fields the Schema Sniffer is shown: the columns of a table, the keys of
\* the first record of a list or mapping
SniffedFields(data) ==
    CASE data.shape = "table" -> {data.columns[c] : c \in 1..Len(data.columns)}
      [] data.shape = "list" ->
            IF data.items = <<>> THEN {} ELSE DictKeys(data.items[1])
      [] data.shape = "mapping" ->
            IF data.entries = <<>> \/ ~IsDict(data.entries[1][2]) THEN {}
            ELSE DictKeys(data.entries[1][2])
      [] OTHER -> {}

\* what the Schema Sniffer answers for the loaded structure
Sniffed(data) ==
    CASE data.shape = "table" -> _find_path_column(data)
      [] data.shape = "list" ->
            _find_path_key_in_dict(IF data.items = <<>> THEN <<>> ELSE data.items[1])
      [] data.shape = "mapping" ->
            IF data.entries = <<>> \/ ~IsDict(data.entries[1][2]) THEN NoKey
            ELSE _find_path_key_in_dict(data.entries[1][2])
      [] OTHER -> NoKey

ClaimedPriority == <<"path", "filepath", "file_path", "location", "uri", "url">>

\* C7: the name heuristic precedes the content heuristic and follows the
\* priority list: the answer is the first listed name that is present (`path`
\* whenever a field is named path), and an answer that is no listed name is
\* given only when no listed name is present.
C7_NameHeuristicFirst ==
    manifest_data.shape # "none" =>
        /\ \A k \in 1..Len(ClaimedPriority) :
              ( /\ ClaimedPriority[k] \in SniffedFields(manifest_data)
                /\ \A j \in 1..(k - 1) :
                      ClaimedPriority[j] \notin SniffedFields(manifest_data) )
              => Sniffed(manifest_data) = ClaimedPriority[k]
        /\ Sniffed(manifest_data) \notin ListedNames
              => SniffedFields(manifest_data) \cap ListedNames = {}

\* C7 witness: a table whose first column, url, holds /c/t1.wav and whose
\* second column is named path was indexed by its path column.
C7_Witness ==
    /\ mpc = "loaded"
    /\ manifest_data.shape = "table"
    /\ manifest_data.columns = <<"url", "path">>
    /\ Len(manifest_data.rows) = 1
    /\ manifest_data.rows[1] = <<P_c_t1, P_b_xt2>>
    /\ DOMAIN file_index = {<<"x", "t2", ".", "wav">>}

\* the isrc, track_title and artist values of every record
MetadataValues(data) ==
    LET triple(dct) == <<DictGet(dct, "isrc", <<"absent">>),
                         DictGet(dct, "track_title", <<"absent">>),
                         DictGet(dct, "artist", <<"absent">>)>>
    IN CASE data.shape = "table" ->
               [r \in 1..Len(data.rows) |-> triple(RowDict(data.columns, data.rows[r]))]
         [] data.shape = "list" -> [i \in 1..Len(data.items) |-> triple(data.items[i])]
         [] data.shape = "mapping" ->
               [i \in 1..Len(data.entries) |-> triple(data.entries[i][2])]
         [] OTHER -> <<>>

\* C9: for every metadata record m, update([m]) applied twice, and update([m, m])
\* applied once, leave every record with the isrc/track_title/artist values a
\* single update([m]) leaves.
C9_ApplyIdempotent ==
    mpc = "loaded" =>
        \A m \in Metadata :
            LET once == update_manifest_with_metadata(manifest_data, file_index, <<m>>)
            IN /\ MetadataValues(update_manifest_with_metadata(once, file_index, <<m>>))
                     = MetadataValues(once)
               /\ MetadataValues(update_manifest_with_metadata(manifest_data, file_index, <<m, m>>))
                     = MetadataValues(once)

\* C9 witness: an update has written US1/Song into the record of t1.wav of a
\* list manifest, the state a second application starts from.
C9_Witness ==
    /\ mpc = "loaded"
    /\ applied = "some"
    /\ manifest_data.shape = "list"
    /\ Len(manifest_data.items) = 2
    /\ <<"t1", ".", "wav">> \in DOMAIN file_index
    /\ DictGet(manifest_data.items[file_index[<<"t1", ".", "wav">>]], "isrc", None) = <<"US1">>

(***************************************************************************)
(* Claims about process_catalogue (checked under Spec)                     *)
(***************************************************************************)
\* update_manifest_with_metadata has run
Updated == pc \in {"save", "done"} \/ (pc = "raised" /\ output.raised # "no")

\* the records of the manifest that hold the three values of a metadata record
RecordsHolding(data, metadata) ==
    {r \in 1..RecordCount(data) :
        MetadataValues(data)[r] = <<metadata.isrc, metadata.track_title, metadata.artist>>}

\* C4: once process_catalogue has updated the manifest, every record it
\* counted as matched has a bare filename that is an exact key of the file
\* index (the update did not skip it), and its isrc/track_title/artist stand
\* in exactly one manifest record.
C4_MatchedAreWritten ==
    Updated =>
        \A k \in 1..Len(matched_metadata) :
            /\ PathName(matched_metadata[k].audio_filename) \in DOMAIN file_index
            /\ Cardinality(RecordsHolding(manifest_data, matched_metadata[k])) = 1

\* process_xml_files has returned
Returned == pc \in {"returned_none", "matching", "save", "done"} \/ (pc = "raised" /\ mpc = "loaded")

\* the selected file parses and holds an audio filename
Good(i) ==
    LET entry == xml_dir[CHOOSE j \in 1..Len(xml_dir) : JoinPath(xml_dir[j].name) = xml_files[i]]
    IN entry.wellformed /\ _extract_audio_filename(entry.doc) # None

\* C8: when process_xml_files has returned, its result holds exactly one
\* record for every selected file that parses and yields an audio filename
\* and none for any other file: N files of which k fail give N - k records.
C8_OneRecordPerGoodFile ==
    Returned =>
        /\ Len(xml_results) = Cardinality({i \in 1..Len(xml_files) : Good(i)})
        /\ \A i \in 1..Len(xml_files) :
              Cardinality({k \in 1..Len(xml_results) : xml_results[k].xml_path = xml_files[i]})
                 = IF Good(i) THEN 1 ELSE 0

\* C8 witness: of two selected files the first is malformed, the second is
\* good, and process_xml_files returned the one record of the second.
C8_Witness ==
    /\ pc = "matching"
    /\ Len(xml_files) = 2
    /\ ~xml_dir[1].wellformed
    /\ Len(xml_results) = 1
    /\ xml_results[1].xml_path = xml_files[2]

\* the .xml files of the directory, in walk order
Discovered ==
    LET IsXml(entry) == entry.name[Len(entry.name)] \in {"xml", "XML"}
        found == SelectSeq(xml_dir, IsXml)
    IN [i \in 1..Len(found) |-> <<"d", "/">> \o found[i].name]

\* C10: with a limit that is set, find_xml_files returns the first
\* min(limit, discovered) discovered files, for every value of the limit, 0
\* included.
C10_LimitTruncates ==
    (pc \notin {"load_manifest", "process_xml_files"} /\ mpc = "loaded" /\ limit.set) =>
        LET n == IF limit.n < Len(Discovered) THEN limit.n ELSE Len(Discovered)
        IN xml_files = SubSeq(Discovered, 1, n)

(***************************************************************************)
(* Claims about the file index and the lookup (checked under SpecManifest) *)
(***************************************************************************)
\* the records of a structure as <<locator, record>> pairs, in iteration order
Records(data) ==
    CASE data.shape = "table" ->
            [r \in 1..Len(data.rows) |-> <<r, RowDict(data.columns, data.rows[r])>>]
      [] data.shape = "list" -> [i \in 1..Len(data.items) |-> <<i, data.items[i]>>]
      [] data.shape = "mapping" -> data.entries
      [] OTHER -> <<>>

\* the positions of the records that hold the path field with this filename
\* as the final component of its value
Naming(data, filename) ==
    {i \in 1..Len(Records(data)) :
        /\ IsDict(Records(data)[i][2])
        /\ DictHas(Records(data)[i][2], PathField(data))
        /\ PathName(DictGet(Records(data)[i][2], PathField(data), <<>>)) = filename}

LastOf(positions) == CHOOSE i \in positions : \A j \in positions : j <= i

\* the filenames of the path fields of the records
PathFilenames(data) ==
    {PathName(DictGet(Records(data)[i][2], PathField(data), <<>>)) :
        i \in {j \in 1..Len(Records(data)) :
                  /\ IsDict(Records(data)[j][2])
                  /\ DictHas(Records(data)[j][2], PathField(data))}}

\* C11: once _build_file_index has run, every filename that ends the path
\* field of some record is mapped to the locator of the last such record, and
\* file_index holds no other key.
C11_LastWriteWinsExactKeys ==
    (mpc = "loaded" /\ PathField(manifest_file) # NoKey) =>
        /\ \A filename \in PathFilenames(manifest_file) :
              /\ filename \in DOMAIN file_index
              /\ file_index[filename] =
                    Records(manifest_file)[LastOf(Naming(manifest_file, filename))][1]
        /\ DOMAIN file_index \subseteq PathFilenames(manifest_file)

\* the first record, in iteration order, whose path field holds the filename
\* as a substring; None when there is none
FirstContaining(data, filename) ==
    LET hits == {i \in 1..Len(Records(data)) :
                    /\ IsDict(Records(data)[i][2])
                    /\ PathField(data) # NoKey
                    /\ Contains(DictGet(Records(data)[i][2], PathField(data), <<>>), filename)}
    IN IF hits = {} THEN NoEntry
       ELSE Entry(Records(data)[CHOOSE i \in hits : \A j \in hits : i <= j][2])

\* the record with this locator
Located(data, locator) ==
    Records(data)[CHOOSE i \in 1..Len(Records(data)) : Records(data)[i][1] = locator][2]

\* C12: find_audio_file(name) returns the record at the indexed locator when
\* the final component of name is a key of file_index; on a miss it returns
\* the first record whose path field contains the component as a substring,
\* and None when no record does.
C12_IndexThenFirstSubstring ==
    (mpc = "loaded" /\ ret.op = "find") =>
        LET filename == PathName(ret.arg)
        IN IF filename \in DOMAIN file_index
           THEN ret.result = Entry(Located(manifest_data, file_index[filename]))
           ELSE ret.result = FirstContaining(manifest_data, filename)

(***************************************************************************)
(* Claims about the threads of process_catalogue (checked under Spec)      *)
(***************************************************************************)
\* extraction work is under way or still to come: a call is queued or running
ExtractionPending ==
    \/ queue # <<>>
    \/ \E w \in 1..max_workers : running[w] # 0
    \/ \E i \in 1..Len(futures) : ~futures[i].done

\* process_xml_files has not returned yet
BeforeReturn == pc \in {"load_manifest", "process_xml_files", "executor"}

\* the index has been built, matching has begun, the manifest was updated
IndexBuilt == mpc # "new"
MatchingBegun == next_result > 1 \/ matched_metadata # <<>> \/ unmatched_count > 0
ManifestUpdated == pc \in {"save", "done"}

\* C13 as stated: index building, matching and the update of the manifest each
\* start only after process_xml_files has completed all extraction work.
C13_AllAfterExtraction ==
    (IndexBuilt \/ MatchingBegun \/ ManifestUpdated) => (~BeforeReturn /\ ~ExtractionPending)

\* C13 amended: the index is built before any extraction work is submitted;
\* matching and the update start only after all extraction work is complete;
\* while extraction work is pending the manifest and the index are what
\* load_manifest left, and the steps of the worker threads change neither.
C13_IndexBeforeMatchingAfter ==
    /\ [](pc = "load_manifest" => (~IndexBuilt /\ ~ExtractionPending /\ futures = <<>>))
    /\ [](pc \in {"process_xml_files", "executor"} => IndexBuilt)
    /\ []((MatchingBegun \/ ManifestUpdated) => (~BeforeReturn /\ ~ExtractionPending))
    /\ [](ExtractionPending => (pc = "executor" /\ manifest_data = manifest_file))
    /\ [][(\E w \in 1..max_workers : WorkerTake(w) \/ WorkerDone(w))
            => UNCHANGED <<manifest_data, file_index>>]_vars

\* C13 witness: a worker thread is processing a file while the index built by
\* load_manifest already holds t1.wav.
C13_Witness ==
    /\ pc = "executor"
    /\ \E w \in 1..max_workers : running[w] # 0
    /\ mpc = "loaded"
    /\ <<"t1", ".", "wav">> \in DOMAIN file_index

(***************************************************************************)
(* Claims about the field sets of the records (checked under SpecManifest) *)
(***************************************************************************)
\* the field names of each record, in iteration order
RecordKeys(data) ==
    [i \in 1..Len(Records(data)) |->
        IF IsDict(Records(data)[i][2]) THEN DictKeys(Records(data)[i][2]) ELSE {}]

\* every record exposes the field names of every other record
Uniform(data) ==
    \A i, j \in 1..Len(Records(data)) : RecordKeys(data)[i] = RecordKeys(data)[j]

\* the file held records, all of them dicts with the same keys
UniformAtLoad ==
    /\ mpc = "loaded"
    /\ \A i \in 1..Len(Records(manifest_file)) : IsDict(Records(manifest_file)[i][2])
    /\ Uniform(manifest_file)

MetadataFieldSet == {"isrc", "track_title", "artist"}

\* C14 as stated: a manifest whose records expose the same field names when
\* it is loaded keeps that property through every sequence of updates.
C14_UniformFieldSet == UniformAtLoad => Uniform(manifest_data)

\* C14 amended: a table stays uniform, all rows gaining the three columns with
\* the first update; in a list or mapping each record keeps the field names it
\* was loaded with, and exactly the records an update has written to, all of
\* them records the file index points to, have isrc, track_title and artist
\* in addition.
C14_UniformForTablesOnly ==
    UniformAtLoad =>
        /\ Len(Records(manifest_data)) = Len(Records(manifest_file))
        /\ manifest_data.shape = "table" =>
              /\ Uniform(manifest_data)
              /\ applied # "none" =>
                    FieldSet(manifest_data) = FieldSet(manifest_file) \cup MetadataFieldSet
        /\ manifest_data.shape # "table" =>
              \A i \in 1..Len(Records(manifest_data)) :
                  \/ RecordKeys(manifest_data)[i] = RecordKeys(manifest_file)[i]
                  \/ /\ RecordKeys(manifest_data)[i] =
                           RecordKeys(manifest_file)[i] \cup MetadataFieldSet
                     /\ applied = "some"
                     /\ \E f \in DOMAIN file_index :
                           file_index[f] = Records(manifest_data)[i][1]

\* C14 witness: after an update of a two-record list, the record of t1.wav has
\* an isrc and the other record has none.
C14_Witness ==
    /\ UniformAtLoad
    /\ applied = "some"
    /\ manifest_data.shape = "list"
    /\ Len(manifest_data.items) = 2
    /\ \E i, j \in 1..2 :
          /\ "isrc" \in RecordKeys(manifest_data)[i]
          /\ "isrc" \notin RecordKeys(manifest_data)[j]

(***************************************************************************)
(* Claims about the result of process_xml_files (checked under Spec)       *)
(***************************************************************************)
\* the record of the i-th selected file, read off the file itself
ExpectedRecord(i) ==
    LET entry == xml_dir[CHOOSE j \in 1..Len(xml_dir) : JoinPath(xml_dir[j].name) = xml_files[i]]
    IN [xml_path |-> xml_files[i],
        audio_filename |-> _extract_audio_filename(entry.doc),
        isrc |-> _extract_isrc(entry.doc),
        track_title |-> _extract_track_title(entry.doc),
        artist |-> _extract_artist(entry.doc)]

\* the records of the good files, in the order of xml_files
ExpectedResults ==
    LET goods == SelectSeq([i \in 1..Len(xml_files) |-> i], Good)
    IN [k \in 1..Len(goods) |-> ExpectedRecord(goods[k])]

\* C15: whatever the number of worker threads and their interleaving, what
\* process_xml_files returns is the records of the successful files in
\* discovery order, each with the path of the file it was extracted from, and
\* self.results is assigned only when no extraction work is left.
C15_SameSequenceForEveryInterleaving ==
    /\ BeforeReturn => self_results = <<>>
    /\ ExtractionPending => (pc = "executor" /\ self_results = <<>>)
    /\ ~BeforeReturn => (xml_results = ExpectedResults /\ self_results = xml_results)

\* C15 witness: with two worker threads, process_xml_files has returned the
\* records of two files, in discovery order.
C15_Witness ==
    /\ pc = "matching"
    /\ max_workers = 2
    /\ Len(xml_files) = 2
    /\ Len(xml_results) = 2
    /\ xml_results[1].xml_path = xml_files[1]
    /\ xml_results[2].xml_path = xml_files[2]
    /\ xml_results[1].audio_filename # xml_results[2].audio_filename

====
